---- MODULE Spec2Model ----
(***************************************************************************)
(* triangle_tile_svg: a PNG is decoded to an RGB byte buffer, a grid of    *)
(* alternating up/down triangles is laid over it, every cell takes the     *)
(* colour of its nearest source pixel, and the cells are appended to an    *)
(* SVG document that is saved once at the end (src/src/main.rs).           *)
(*                                                                         *)
(* Conventions of the model                                                *)
(*  - main is cut into its stages (pc); the nested loop advances one row   *)
(*    of the grid per step.                                                *)
(*  - a command-line token is [kind, val]: kind "num" is the decimal text  *)
(*    of val, kind "text" is a token that is no number.                    *)
(*  - canvas lengths (f32 in the source) are fixed-point integers in       *)
(*    units of 1/1000: "1.0" is 1000, the default "0.1" is 100.            *)
(*  - the f32 product that derives n_horiz_tris is computed bit-exactly    *)
(*    (24-bit significand, round to nearest even).                         *)
(***************************************************************************)
EXTENDS Integers, Sequences, FiniteSets, TLC

VARIABLES pc, argv, n_vertical_tris, triangle_height, svg_path,
          image_width, image_data, image_height,
          n_horiz_tris, half_triangle_width, viewBox,
          document, row, y, io, err

vars == <<pc, argv, n_vertical_tris, triangle_height, svg_path,
          image_width, image_data, image_height,
          n_horiz_tris, half_triangle_width, viewBox,
          document, row, y, io, err>>

(***************************************************************************)
(* Bounds of the model                                                     *)
(***************************************************************************)
\* largest image width and height a decoded frame has
MaxDim == 3

\* largest row count given explicitly on the command line
MaxCount == 3

\* largest coordinate / length magnitude fed to triangle_at on its own
MaxCoord == 2

(***************************************************************************)
(* Command line                                                            *)
(***************************************************************************)
Num(n) == [kind |-> "num", val |-> n]

Text == [kind |-> "text", val |-> 0]

\* "30".to_string()
DefaultCount == 30

\* "0.1".to_string(), in 1/1000 units
DefaultHeight == 100

PathArgs == {"in.png"}

CountArgs == {Text} \cup {Num(n) : n \in (-1)..MaxCount}

HeightArgs == {Text, Num(-1000), Num(0), Num(1000)}

OutArgs == {"mosaic.svg"}

\* every argument vector: arguments are positional, so a later one is
\* present only when the earlier ones are
ArgVectors ==
    {<< >>}
    \cup {<<p>> : p \in PathArgs}
    \cup {<<p, c>> : p \in PathArgs, c \in CountArgs}
    \cup {<<p, c, h>> : p \in PathArgs, c \in CountArgs, h \in HeightArgs}
    \cup {<<p, c, h, o>> : p \in PathArgs, c \in CountArgs,
                           h \in HeightArgs, o \in OutArgs}

\* str::parse::<usize>: digits only, no sign
IsUsizeText(tok) == tok.kind = "num" /\ tok.val >= 0

\* str::parse::<f32>: any decimal number, signed or not
IsF32Text(tok) == tok.kind = "num"

\* args.next().unwrap_or("30".to_string()).parse()
CountResult(args) ==
    LET tok == IF Len(args) >= 2 THEN args[2] ELSE Num(DefaultCount)
    IN  IF IsUsizeText(tok) THEN [ok |-> TRUE, val |-> tok.val]
                            ELSE [ok |-> FALSE, val |-> 0]

\* the default replaces a failed parse instead of a missing argument
HeightResult_lenient(args) ==
    LET tok == IF Len(args) >= 3 THEN args[3] ELSE Num(DefaultHeight)
    IN  IF IsF32Text(tok) THEN [ok |-> TRUE, val |-> tok.val]
                          ELSE [ok |-> TRUE, val |-> DefaultHeight]

\* args.next().unwrap_or("0.1".to_string()).parse()
HeightResult(args) ==
    LET tok == IF Len(args) >= 3 THEN args[3] ELSE Num(DefaultHeight)
    IN  IF IsF32Text(tok) THEN [ok |-> TRUE, val |-> tok.val]
                          ELSE [ok |-> FALSE, val |-> 0]

\* args.next().unwrap_or("out.svg".to_string())
OutPathOf(args) == IF Len(args) >= 4 THEN args[4] ELSE "out.svg"

(***************************************************************************)
(* PNG decoding: load_png_from_path, load_png_rgb                          *)
(***************************************************************************)
ColorTypes == {"Rgb", "Rgba", "Grayscale", "GrayscaleAlpha", "Indexed"}

BitDepths == {8, 16}

\* what the decoder reports for a frame: info.bit_depth, info.color_type,
\* info.width and the height that fixes info.buffer_size()
Frames == [bit_depth : BitDepths, color_type : ColorTypes,
           width : 0..MaxDim, height : 0..MaxDim]

\* bytes per pixel of an 8-bit frame
Channels(ct) ==
    CASE ct = "Rgb" -> 3
      [] ct = "Rgba" -> 4
      [] ct = "Grayscale" -> 1
      [] ct = "GrayscaleAlpha" -> 2
      [] OTHER -> 1

\* colour of the p-th pixel (row-major, from 0) of the picture in the file:
\* red, green, blue, white, then pairwise different colours
PixelRGB(p) ==
    CASE p = 0 -> <<255, 0, 0>>
      [] p = 1 -> <<0, 255, 0>>
      [] p = 2 -> <<0, 0, 255>>
      [] p = 3 -> <<255, 255, 255>>
      [] OTHER -> <<p * 10, p * 10 + 1, p * 10 + 2>>

\* luminance of the p-th pixel of a grayscale picture
PixelGray(p) == p * 16 + 7

\* the frame as next_frame leaves it in buf, truncated to info.buffer_size()
RawBuf(f) ==
    LET ch == Channels(f.color_type)
    IN  [i \in 1..(f.width * f.height * ch) |->
            LET p == (i - 1) \div ch
                c == (i - 1) % ch
            IN  CASE f.color_type = "Rgb" -> PixelRGB(p)[c + 1]
                  [] f.color_type = "Rgba" ->
                        IF c < 3 THEN PixelRGB(p)[c + 1] ELSE 128
                  [] f.color_type = "Grayscale" -> PixelGray(p)
                  [] f.color_type = "GrayscaleAlpha" ->
                        IF c = 0 THEN PixelGray(p) ELSE 128
                  [] OTHER -> p]

\* the match on info.color_type: every supported encoding becomes RGB triples
ToRgb(ct, buf) ==
    CASE ct = "Rgb" -> buf
      [] ct = "Rgba" ->
            [i \in 1..((Len(buf) \div 4) * 3) |->
                buf[((i - 1) \div 3) * 4 + ((i - 1) % 3) + 1]]
      [] ct = "Grayscale" ->
            [i \in 1..(Len(buf) * 3) |-> buf[((i - 1) \div 3) + 1]]
      [] ct = "GrayscaleAlpha" ->
            [i \in 1..((Len(buf) \div 2) * 3) |-> buf[((i - 1) \div 3) * 2 + 1]]
      [] OTHER -> << >>

SupportedColor(ct) == ct \in {"Rgb", "Rgba", "Grayscale", "GrayscaleAlpha"}

(***************************************************************************)
(* Grid parameters                                                         *)
(***************************************************************************)
\* significand of (3.0_f32).sqrt(): sqrt_3 = Sqrt3Sig / 2^23
Sqrt3Sig == 14529495

\* number of low bits a positive integer below 2^31 loses when it is
\* rounded to the 24-bit significand of an f32
F32Shift(P) ==
    CHOOSE s \in 0..7 :
        /\ (P \div (2 ^ s)) < 2 ^ 24
        /\ (s = 0 \/ (P \div (2 ^ (s - 1))) >= 2 ^ 24)

\* P rounded to the nearest f32, ties to even
F32Round(P) ==
    LET s == F32Shift(P)
        unit == 2 ^ s
        lo == (P \div unit) * unit
        rem == P - lo
    IN  IF s = 0 THEN P
        ELSE IF 2 * rem > unit \/ (2 * rem = unit /\ (P \div unit) % 2 = 1)
             THEN lo + unit
             ELSE lo

\* (n as f32 * sqrt_3) as usize
MulSqrt3(n) == F32Round(n * Sqrt3Sig) \div (2 ^ 23)

\* floor(w * nv / h * sqrt(3)) with one floor over the real-valued product:
\* the largest k with k^2 * h^2 <= 3 * w^2 * nv^2
SingleFloor(w, h, nv) ==
    CHOOSE k \in 0..(2 * w * nv) :
        /\ k * k * h * h <= 3 * w * w * nv * nv
        /\ (k + 1) * (k + 1) * h * h > 3 * w * w * nv * nv

\* floor(q * sqrt(3)) for an integer q: the largest k with k^2 <= 3 * q^2
FloorSqrt3(q) ==
    CHOOSE k \in q..(2 * q) :
        /\ k * k <= 3 * q * q
        /\ (k + 1) * (k + 1) > 3 * q * q

\* the quotient is scaled before anything is truncated
NHorizTris_scaled_first(w, h, nv) == SingleFloor(w, h, nv)

\* n_horiz_tris of an image_width x image_height picture
NHorizTris(w, h, nv) == MulSqrt3((w * nv) \div h)

\* triangle_height / sqrt_3 at the fixed-point resolution of the model
HalfWidthOf(th) ==
    IF th >= 0 THEN (th * 1000) \div 1732
               ELSE -(((-th) * 1000) \div 1732)

(***************************************************************************)
(* Sampling and colour                                                     *)
(***************************************************************************)
Min(a, b) == IF a <= b THEN a ELSE b

\* ((row * image_height) / n_vertical_tris).min(image_height-1)
ImgY(r, h, nv) == Min((r * h) \div nv, h - 1)

\* the clamp to the last pixel column is missing
ImgX_unclamped(c, w, nh) == (c * w) \div nh

\* ((col * image_width) / n_horiz_tris).min(image_width-1)
ImgX(c, w, nh) == Min((c * w) \div nh, w - 1)

\* subpixel_idx, as a 0-based index into image_data
SubpixelIdx(ix, iy, w) == (ix + iy * w) * 3

HexDigits == <<"0", "1", "2", "3", "4", "5", "6", "7",
               "8", "9", "A", "B", "C", "D", "E", "F">>

\* {:02X}
Hex2(b) == <<HexDigits[(b \div 16) + 1], HexDigits[(b % 16) + 1]>>

\* the channels are written blue first
encode_color_bgr(rgb) == <<"#">> \o Hex2(rgb[3]) \o Hex2(rgb[2]) \o Hex2(rgb[1])

\* format!("#{:02X}{:02X}{:02X}", r, g, b), one character per element
encode_color(rgb) == <<"#">> \o Hex2(rgb[1]) \o Hex2(rgb[2]) \o Hex2(rgb[3])

\* the parities are compared with == in place of !=
PointsUp_same(r, c) == (r % 2 = 0) = (c % 2 = 0)

\* (row & 1 == 0) != (col & 1 == 0)
PointsUp(r, c) == (r % 2 = 0) # (c % 2 = 0)

(***************************************************************************)
(* Geometry: triangle_at                                                   *)
(***************************************************************************)
MoveTo(a, b) == [op |-> "M", a |-> a, b |-> b]

LineBy(a, b) == [op |-> "l", a |-> a, b |-> b]

Close == [op |-> "z", a |-> 0, b |-> 0]

\* the down-pointing triangle starts at an apex placed at y - height
triangle_at_apex(x, yy, half_width, height, points_up, color) ==
    LET data == IF points_up
                THEN <<MoveTo(x, yy),
                       LineBy(-half_width, height),
                       LineBy(half_width * 2, 0), Close>>
                ELSE <<MoveTo(x, yy - height),
                       LineBy(-half_width, height),
                       LineBy(half_width * 2, 0), Close>>
    IN  [fill |-> color, stroke |-> "none", d |-> data]

\* the SvgPath node triangle_at returns
triangle_at(x, yy, half_width, height, points_up, color) ==
    LET data == IF points_up
                THEN <<MoveTo(x, yy),
                       LineBy(-half_width, height),
                       LineBy(half_width * 2, 0), Close>>
                ELSE <<MoveTo(x, yy + height),
                       LineBy(-half_width, -height),
                       LineBy(half_width * 2, 0), Close>>
    IN  [fill |-> color, stroke |-> "none", d |-> data]

\* the absolute points a path visits: a move-to sets the current point,
\* a line-by adds its offset to it, close adds no point
RECURSIVE Resolve(_, _)
Resolve(ops, cur) ==
    IF ops = << >> THEN << >>
    ELSE LET o == Head(ops)
         IN  CASE o.op = "M" ->
                    <<<<o.a, o.b>>>> \o Resolve(Tail(ops), <<o.a, o.b>>)
               [] o.op = "l" ->
                    <<<<cur[1] + o.a, cur[2] + o.b>>>>
                        \o Resolve(Tail(ops), <<cur[1] + o.a, cur[2] + o.b>>)
               [] OTHER -> Resolve(Tail(ops), cur)


(***************************************************************************)
(* main, stage by stage                                                    *)
(***************************************************************************)
Init ==
    /\ pc = "args"
    /\ argv \in ArgVectors
    /\ n_vertical_tris = 0
    /\ triangle_height = 0
    /\ svg_path = ""
    /\ image_width = 0
    /\ image_data = << >>
    /\ image_height = 0
    /\ n_horiz_tris = 0
    /\ half_triangle_width = 0
    /\ viewBox = <<0, 0, 0, 0>>
    /\ document = << >>
    /\ row = 0
    /\ y = 0
    /\ io = << >>
    /\ err = ""

\* let image_path = args.next().with_context(usage)?
TakeImagePath ==
    /\ pc = "args"
    /\ IF Len(argv) >= 1
       THEN pc' = "count" /\ err' = err
       ELSE pc' = "err" /\ err' = "Usage"
    /\ UNCHANGED <<argv, n_vertical_tris, triangle_height, svg_path,
                   image_width, image_data, image_height, n_horiz_tris,
                   half_triangle_width, viewBox, document, row, y, io>>

\* let n_vertical_tris: usize = ... .parse().context(...)?
ParseCount ==
    /\ pc = "count"
    /\ LET r == CountResult(argv)
       IN  IF r.ok
           THEN pc' = "height" /\ n_vertical_tris' = r.val /\ err' = err
           ELSE pc' = "err" /\ n_vertical_tris' = n_vertical_tris
                /\ err' = "# of vertical triangles"
    /\ UNCHANGED <<argv, triangle_height, svg_path,
                   image_width, image_data, image_height, n_horiz_tris,
                   half_triangle_width, viewBox, document, row, y, io>>

\* let triangle_height: f32 = ... .parse().context(...)?
ParseHeight ==
    /\ pc = "height"
    /\ LET r == HeightResult(argv)
       IN  IF r.ok
           THEN pc' = "out" /\ triangle_height' = r.val /\ err' = err
           ELSE pc' = "err" /\ triangle_height' = triangle_height
                /\ err' = "Triangle height"
    /\ UNCHANGED <<argv, n_vertical_tris, svg_path,
                   image_width, image_data, image_height, n_horiz_tris,
                   half_triangle_width, viewBox, document, row, y, io>>

\* let svg_path = args.next().unwrap_or("out.svg".to_string())
TakeOutPath ==
    /\ pc = "out"
    /\ pc' = "load"
    /\ svg_path' = OutPathOf(argv)
    /\ UNCHANGED <<argv, n_vertical_tris, triangle_height,
                   image_width, image_data, image_height, n_horiz_tris,
                   half_triangle_width, viewBox, document, row, y, io, err>>

\* load_png_from_path(image_path).context("Loading image")?
\* The file system and the decoder choose the outcome.
LoadImage ==
    /\ pc = "load"
    /\ \/ /\ io' = io \o <<"open">>
          /\ pc' = "err"
          /\ err' = "Opening file"
          /\ UNCHANGED <<image_width, image_data>>
       \/ /\ io' = io \o <<"open", "read">>
          /\ pc' = "err"
          /\ err' = "Reading frame"
          /\ UNCHANGED <<image_width, image_data>>
       \/ \E f \in Frames :
            /\ io' = io \o <<"open", "read">>
            /\ IF f.bit_depth # 8
               THEN /\ pc' = "err"
                    /\ err' = "Bit depth unsupported"
                    /\ UNCHANGED <<image_width, image_data>>
               ELSE IF ~SupportedColor(f.color_type)
               THEN /\ pc' = "err"
                    /\ err' = "Color type unsupported"
                    /\ UNCHANGED <<image_width, image_data>>
               ELSE /\ pc' = "size"
                    /\ err' = err
                    /\ image_width' = f.width
                    /\ image_data' = ToRgb(f.color_type, RawBuf(f))
    /\ UNCHANGED <<argv, n_vertical_tris, triangle_height, svg_path,
                   image_height, n_horiz_tris,
                   half_triangle_width, viewBox, document, row, y>>

\* let image_height = image_data.len() / (image_width * 3);
\* if image_data.is_empty() { bail!("Empty image") }
DeriveHeight ==
    /\ pc = "size"
    /\ IF image_width * 3 = 0
       THEN /\ pc' = "panic"
            /\ err' = "attempt to divide by zero"
            /\ image_height' = image_height
       ELSE /\ image_height' = Len(image_data) \div (image_width * 3)
            /\ IF image_data = << >>
               THEN pc' = "err" /\ err' = "Empty image"
               ELSE pc' = "grid" /\ err' = err
    /\ UNCHANGED <<argv, n_vertical_tris, triangle_height, svg_path,
                   image_width, image_data, n_horiz_tris,
                   half_triangle_width, viewBox, document, row, y, io>>

\* n_horiz_tris, half_triangle_width, the document with its viewBox, y = 0.0
ComputeGrid ==
    /\ pc = "grid"
    /\ IF image_height = 0
       THEN /\ pc' = "panic"
            /\ err' = "attempt to divide by zero"
            /\ UNCHANGED <<n_horiz_tris, half_triangle_width, viewBox>>
       ELSE LET nh == NHorizTris(image_width, image_height, n_vertical_tris)
                hw == HalfWidthOf(triangle_height)
            IN  /\ pc' = "walk"
                /\ err' = err
                /\ n_horiz_tris' = nh
                /\ half_triangle_width' = hw
                /\ viewBox' = <<0, 0, nh * hw, n_vertical_tris * triangle_height>>
    /\ document' = << >>
    /\ row' = 0
    /\ y' = 0
    /\ UNCHANGED <<argv, n_vertical_tris, triangle_height, svg_path,
                   image_width, image_data, image_height, io>>

\* the outer loop stops one row early
RowEnd_short(nv) == nv - 1

\* exclusive end of `for row in 0..n_vertical_tris`
RowEnd(nv) == nv

\* the inner loop uses the exclusive range 0..n_horiz_tris
ColLast_exclusive(nh) == nh - 1

\* inclusive end of `for col in 0..=n_horiz_tris`
ColLast(nh) == nh

\* the body of the inner loop faults at column c: the division by
\* n_horiz_tris, or the indexing of image_data
CellFaults(r, c) ==
    \/ n_horiz_tris = 0
    \/ SubpixelIdx(ImgX(c, image_width, n_horiz_tris),
                   ImgY(r, image_height, n_vertical_tris),
                   image_width) + 2 >= Len(image_data)

\* what the body of the inner loop appends for cell (r, c); cell, sample,
\* origin and points_up record the values the body computed on the way
CellRecord(r, c) ==
    LET img_y == ImgY(r, image_height, n_vertical_tris)
        img_x == ImgX(c, image_width, n_horiz_tris)
        idx == SubpixelIdx(img_x, img_y, image_width)
        rgb == <<image_data[idx + 1], image_data[idx + 2], image_data[idx + 3]>>
        points_up == PointsUp(r, c)
        x == c * half_triangle_width
    IN  [cell |-> <<r, c>>,
         sample |-> <<img_x, img_y>>,
         origin |-> <<x, y>>,
         points_up |-> points_up,
         node |-> triangle_at(x, y, half_triangle_width, triangle_height,
                              points_up, encode_color(rgb))]

\* one pass of the outer loop: the inner loop over the columns of `row`
WalkRow ==
    /\ pc = "walk"
    /\ row < RowEnd(n_vertical_tris)
    /\ LET faulty == {c \in 0..ColLast(n_horiz_tris) : CellFaults(row, c)}
           stop == IF faulty = {}
                   THEN ColLast(n_horiz_tris) + 1
                   ELSE CHOOSE c \in faulty : \A d \in faulty : c <= d
       IN  /\ document' = document \o [i \in 1..stop |-> CellRecord(row, i - 1)]
           /\ IF faulty = {}
              THEN /\ pc' = pc
                   /\ err' = err
                   /\ row' = row + 1
                   /\ y' = y + triangle_height
              ELSE /\ pc' = "panic"
                   /\ err' = IF n_horiz_tris = 0
                             THEN "attempt to divide by zero"
                             ELSE "index out of bounds"
                   /\ UNCHANGED <<row, y>>
    /\ UNCHANGED <<argv, n_vertical_tris, triangle_height, svg_path,
                   image_width, image_data, image_height, n_horiz_tris,
                   half_triangle_width, viewBox, io>>

\* svg::save(svg_path, &document).context("Saving document")?; Ok(())
SaveDocument ==
    /\ pc = "walk"
    /\ ~(row < RowEnd(n_vertical_tris))
    /\ io' = io \o <<"write">>
    /\ \/ pc' = "done" /\ err' = err
       \/ pc' = "err" /\ err' = "Saving document"
    /\ UNCHANGED <<argv, n_vertical_tris, triangle_height, svg_path,
                   image_width, image_data, image_height, n_horiz_tris,
                   half_triangle_width, viewBox, document, row, y>>

Next ==
    \/ TakeImagePath
    \/ ParseCount
    \/ ParseHeight
    \/ TakeOutPath
    \/ LoadImage
    \/ DeriveHeight
    \/ ComputeGrid
    \/ WalkRow
    \/ SaveDocument

Spec == Init /\ [][Next]_vars


(***************************************************************************)
(* triangle_at on its own: every origin, half width, height, orientation   *)
(***************************************************************************)
Coords == (-MaxCoord)..MaxCoord

GeomInit ==
    /\ pc = "geom"
    /\ argv = << >>
    /\ n_vertical_tris = 0
    /\ triangle_height \in Coords
    /\ svg_path = ""
    /\ image_width = 0
    /\ image_data = << >>
    /\ image_height = 0
    /\ n_horiz_tris = 0
    /\ half_triangle_width \in Coords
    /\ viewBox = <<0, 0, 0, 0>>
    /\ document = << >>
    /\ row = 0
    /\ y \in Coords
    /\ io = << >>
    /\ err = ""

\* document.append(triangle_at(x, y, half_triangle_width, triangle_height,
\*                             points_up, &color))
GeomEmit ==
    /\ pc = "geom"
    /\ pc' = "geom_done"
    /\ \E x \in Coords, up \in BOOLEAN :
         document' = Append(document,
            [cell |-> <<0, 0>>,
             sample |-> <<0, 0>>,
             origin |-> <<x, y>>,
             points_up |-> up,
             node |-> triangle_at(x, y, half_triangle_width, triangle_height,
                                  up, encode_color(<<255, 0, 0>>))])
    /\ UNCHANGED <<argv, n_vertical_tris, triangle_height, svg_path,
                   image_width, image_data, image_height, n_horiz_tris,
                   half_triangle_width, viewBox, row, y, io, err>>

GeomNext == GeomEmit

GeomSpec == GeomInit /\ [][GeomNext]_vars

(***************************************************************************)
(* Vocabulary of the properties                                            *)
(***************************************************************************)
\* the output path has been written to
Written == \E i \in DOMAIN io : io[i] = "write"

\* n_horiz_tris has been derived
GridComputed == image_height > 0 /\ pc # "grid"

\* the record at position i of the document belongs to the cell that
\* row-major order puts there
RowMajorAt(i) ==
    document[i].cell = <<(i - 1) \div (n_horiz_tris + 1),
                         (i - 1) % (n_horiz_tris + 1)>>

\* the count or the height argument is present and is not a number of its type
BadNumeric ==
    \/ Len(argv) >= 2 /\ ~IsUsizeText(argv[2])
    \/ Len(argv) >= 3 /\ ~IsF32Text(argv[3])

\* the 2x2 picture red, green / blue, white with 2 rows of height 1.0
Scenario ==
    /\ GridComputed
    /\ image_width = 2
    /\ image_data = <<255, 0, 0, 0, 255, 0, 0, 0, 255, 255, 255, 255>>
    /\ n_vertical_tris = 2
    /\ triangle_height = 1000

Red == <<"#", "F", "F", "0", "0", "0", "0">>


(***************************************************************************)
(* Properties                                                              *)
(***************************************************************************)

\* C1: whenever n_horiz_tris >= 1, the document holds the records of the
\* cells in row-major order (position i holds cell ((i-1) div (nh+1),
\* (i-1) mod (nh+1))), a finished row leaves exactly row * (nh+1) records,
\* and once the loop has been left there are exactly
\* n_vertical_tris * (n_horiz_tris + 1) of them, one per cell.
C1_RowMajorCount ==
    (GridComputed /\ n_horiz_tris >= 1) =>
        /\ \A i \in DOMAIN document : RowMajorAt(i)
        /\ pc = "walk" => Len(document) = row * (n_horiz_tris + 1)
        /\ Written => Len(document) = n_vertical_tris * (n_horiz_tris + 1)

C1_Witness ==
    /\ Written
    /\ n_vertical_tris >= 2
    /\ n_horiz_tris >= 2
    /\ Len(document) = n_vertical_tris * (n_horiz_tris + 1)
    /\ document[Len(document)].cell = <<n_vertical_tris - 1, n_horiz_tris>>

\* C2 as stated: for n_vertical_tris > 0 the derived n_horiz_tris is
\* floor(image_width * n_vertical_tris / image_height * sqrt(3)) with one
\* floor over the real-valued expression, and is >= 0.
C2_SingleFloor ==
    (GridComputed /\ n_vertical_tris > 0) =>
        /\ n_horiz_tris = SingleFloor(image_width, image_height, n_vertical_tris)
        /\ n_horiz_tris >= 0

\* C2 amended: for n_vertical_tris > 0 the derived n_horiz_tris is
\* floor(q * sqrt(3)) of the already truncated integer quotient
\* q = floor(image_width * n_vertical_tris / image_height), and is >= 0.
C2_TwoFloors ==
    (GridComputed /\ n_vertical_tris > 0) =>
        /\ n_horiz_tris =
              FloorSqrt3((image_width * n_vertical_tris) \div image_height)
        /\ n_horiz_tris >= 0

C2_Witness ==
    /\ GridComputed
    /\ n_vertical_tris > 0
    /\ n_horiz_tris >= 1
    /\ n_horiz_tris # SingleFloor(image_width, image_height, n_vertical_tris)

\* C3: every record's sample coordinates lie inside the picture, whose
\* height is data length / (image_width * 3), the three bytes read for it
\* lie inside image_data, and the walk never stops on an out-of-bounds index.
C3_SampleInBounds ==
    /\ ~(pc = "panic" /\ err = "index out of bounds")
    /\ \A i \in DOMAIN document :
          LET img_x == document[i].sample[1]
              img_y == document[i].sample[2]
              height == Len(image_data) \div (image_width * 3)
              first == (img_x + img_y * image_width) * 3
          IN  /\ 0 <= img_x /\ img_x <= image_width - 1
              /\ 0 <= img_y /\ img_y <= height - 1
              /\ \A k \in 0..2 : first + k < Len(image_data)

C3_Witness ==
    /\ pc = "done"
    /\ n_vertical_tris >= 2
    /\ image_width >= 2
    /\ image_height >= 2
    /\ \E i \in DOMAIN document :
          /\ document[i].cell = <<n_vertical_tris - 1, n_horiz_tris>>
          /\ document[i].sample = <<image_width - 1, image_height - 1>>

\* C4: every record's orientation is (row even) XOR (col even); two records
\* of neighbouring columns in one row, and of neighbouring rows in one
\* column, have opposite orientations.
C4_Orientation ==
    \A i \in DOMAIN document :
        LET r == document[i].cell[1]
            c == document[i].cell[2]
        IN  /\ document[i].points_up = ((r % 2 = 0) # (c % 2 = 0))
            /\ \A j \in {i + 1, i + n_horiz_tris + 1} \cap DOMAIN document :
                  (document[j].cell \in {<<r, c + 1>>, <<r + 1, c>>})
                      => document[j].points_up # document[i].points_up

C4_Witness ==
    /\ GridComputed
    /\ n_horiz_tris >= 1
    /\ Len(document) >= 2 * (n_horiz_tris + 1)
    /\ document[2].cell = <<0, 1>>
    /\ document[n_horiz_tris + 2].cell = <<1, 0>>
    /\ document[2].points_up
    /\ document[n_horiz_tris + 2].points_up

\* C5: the path of every emitted node is move-to, line-by, line-by, close,
\* and its three absolute points are (x, y), (x - h, y + t), (x + h, y + t)
\* when it points up and (x, y + t), (x - h, y), (x + h, y) when it points
\* down, for origin (x, y), half width h and height t.
C5_Vertices ==
    \A i \in DOMAIN document :
        LET x == document[i].origin[1]
            yy == document[i].origin[2]
            h == half_triangle_width
            t == triangle_height
            d == document[i].node.d
        IN  /\ [k \in DOMAIN d |-> d[k].op] = <<"M", "l", "l", "z">>
            /\ Resolve(d, <<0, 0>>) =
                  IF document[i].points_up
                  THEN <<<<x, yy>>, <<x - h, yy + t>>, <<x + h, yy + t>>>>
                  ELSE <<<<x, yy + t>>, <<x - h, yy>>, <<x + h, yy>>>>

C5_Witness ==
    /\ pc = "geom_done"
    /\ Len(document) = 1
    /\ ~document[1].points_up
    /\ triangle_height > 0
    /\ half_triangle_width > 0
    /\ document[1].origin[1] # 0

\* C6 as stated: the first record is cell (0, 0), points up and is filled
\* from pixel (0, 0); in the 2x2 scenario n_horiz_tris = 3, the finished
\* document has 8 records and the first one points up and is #FF0000.
C6_FirstPointsUp ==
    /\ (GridComputed /\ document # << >>) =>
          /\ document[1].cell = <<0, 0>>
          /\ document[1].sample = <<0, 0>>
          /\ document[1].points_up
    /\ Scenario =>
          /\ n_horiz_tris = 3
          /\ Written => Len(document) = 8
          /\ document # << >> =>
                document[1].points_up /\ document[1].node.fill = Red

\* C6 amended: the first record is cell (0, 0), points DOWN and is filled
\* from pixel (0, 0); in the 2x2 scenario n_horiz_tris = 3, the finished
\* document has 8 records and the first one points down and is #FF0000.
C6_FirstPointsDown ==
    /\ (GridComputed /\ document # << >>) =>
          /\ document[1].cell = <<0, 0>>
          /\ document[1].sample = <<0, 0>>
          /\ ~document[1].points_up
          /\ document[1].node.d[1] = MoveTo(0, triangle_height)
    /\ Scenario =>
          /\ n_horiz_tris = 3
          /\ Written => Len(document) = 8
          /\ document # << >> =>
                ~document[1].points_up /\ document[1].node.fill = Red

C6_Witness ==
    /\ Scenario
    /\ pc = "done"
    /\ Len(document) = 8
    /\ document[1].node.fill = Red

\* C7: a run whose count argument is 0, or whose height argument is zero or
\* negative, never reaches the walk and never writes the output.
C7_NonPositiveRejected ==
    (\/ Len(argv) >= 2 /\ argv[2] = Num(0)
     \/ Len(argv) >= 3 /\ argv[3].kind = "num" /\ argv[3].val <= 0)
        => (pc \notin {"walk", "done"} /\ ~Written)

\* C8: a run whose count or height argument is present and unparsable never
\* gets past argument parsing other than into the error state and performs
\* no file operation; any file operation happens after both were parsed.
C8_ParseBeforeIO ==
    /\ BadNumeric => (io = << >> /\ pc \in {"args", "count", "height", "err"})
    /\ io # << >> => pc \notin {"args", "count", "height", "out"}

C8_Witness ==
    /\ Len(argv) >= 3
    /\ IsUsizeText(argv[2])
    /\ ~IsF32Text(argv[3])
    /\ pc = "err"
    /\ err = "Triangle height"
    /\ io = << >>

\* C9: the output is written at most once, only as the last file operation
\* after open and read, with parsable arguments, a non-empty image and a
\* document holding every cell of the grid; a run that ended in an error of
\* an earlier stage, or was aborted, has written nothing.
C9_WriteOnlyAtEnd ==
    /\ Cardinality({i \in DOMAIN io : io[i] = "write"}) <= 1
    /\ Written =>
          /\ io = <<"open", "read", "write">>
          /\ Len(argv) >= 1
          /\ ~BadNumeric
          /\ image_data # << >>
          /\ Len(document) = n_vertical_tris * (n_horiz_tris + 1)
    /\ (pc = "err" /\ err # "Saving document") => ~Written
    /\ pc = "panic" => ~Written

C9_Witness ==
    /\ pc = "done"
    /\ io = <<"open", "read", "write">>
    /\ n_vertical_tris = 1
    /\ Len(document) = n_horiz_tris + 1

\* C10: for a non-empty image, n_vertical_tris > 0 and triangle_height > 0
\* the derived n_horiz_tris is positive and the walk never aborts.
C10_PositiveColumns ==
    (/\ GridComputed
     /\ image_width > 0
     /\ n_vertical_tris > 0
     /\ triangle_height > 0)
        => (n_horiz_tris >= 1 /\ pc # "panic")


====
